---- MODULE Spec2Model ----
(***************************************************************************)
(* Host-side runtime of the wasm contract interpreter                      *)
(* (ethcore/wasm2/src/runtime.rs): the Runtime's gas counter, return       *)
(* buffer and sandbox memory, and one action per host function.            *)
(*                                                                         *)
(* Machine integers are scaled: MaxU64 stands for u64::MAX and MaxU32 for  *)
(* u32::MAX, so that u64 arithmetic is arithmetic modulo MaxU64 + 1.  A    *)
(* 32-byte word (H256 / U256) and a 20-byte address occupy H256Len and     *)
(* AddressLen cells of the modelled linear memory.                         *)
(***************************************************************************)
EXTENDS Integers, Sequences, FiniteSets, TLC

\* ---- bounds of the model ------------------------------------------------
MaxU64 == 4
MaxU32 == 1
MemSize == 1

\* ---- widths of the scalars read from sandbox memory (in cells) ----------
H256Len == 1
AddressLen == 1

U64Mod == MaxU64 + 1
U64 == 0..MaxU64
U32 == 0..MaxU32

\* The gas budget a Runtime is built with: below u64::MAX by one u32 amount,
\* so that a charge can exceed it with and without overflowing.
GasLimits == {MaxU64 - MaxU32}

\* The gas arguments a sub-call is tried with (an i64 read as u64): one the
\* budget covers, and the largest, which overflows the counter.
ForwardedGas == {1, MaxU64}

\* Two byte values: 0x00, and 0xFF (which no valid UTF-8 string contains).
Byte == {0, 255}
Ptrs == 0..MemSize
Lens == 0..MemSize

\* Pointers for arguments of which only the bounds check matters: one whose
\* region lies inside the memory, one whose region runs past its end.
EdgePtrs == {0, MemSize}

\* The (ptr, len) regions a sub-call is tried with: one inside the memory,
\* one that runs past its end.
CallRegions == {<<0, 1>>, <<MemSize, 1>>}

\* The (ptr, len) regions create is given code in: every length inside the
\* memory, and one region that runs past its end.
CodeRegions == {<<0, l>> : l \in Lens} \cup {<<MemSize, 1>>}

Words == [1..H256Len -> Byte]
Addresses == [1..AddressLen -> Byte]

\* vm::Schedule: the gas costs the Runtime reads through ext.schedule()
schedule ==
    [ sload_gas |-> 1, sstore_set_gas |-> 2, call_gas |-> 1,
      create_gas |-> 2, create_data_gas |-> 1,
      suicide_gas |-> 1, suicide_to_new_account_cost |-> 2,
      blockhash_gas |-> 1,
      wasm |-> [static_address |-> 1, static_u256 |-> 1] ]

\* RuntimeContext of the invocation (immutable)
context ==
    [ address |-> [i \in 1..AddressLen |-> 0],
      sender  |-> [i \in 1..AddressLen |-> 255],
      value   |-> [i \in 1..H256Len |-> 255] ]

VARIABLES
    gas_counter,      \* Runtime.gas_counter
    gas_limit,        \* Runtime.gas_limit
    memory,           \* the sandbox linear memory behind Runtime.memory
    args,             \* Runtime.args
    result,           \* Runtime.result
    ext,              \* state of the provider behind Runtime.ext
    status,           \* "absent" | "running" | "trapped" | "aborted" | "done"
    block_calls,      \* host calls since the last gas() of the basic block
    last,             \* the last host call and how it ended
    driver            \* WasmInterpreter::exec: its inputs, position and result

vars == <<gas_counter, gas_limit, memory, args, result, ext,
          status, block_calls, last, driver>>

\* ---- sandbox memory (wasmi MemoryInstance, bounds-checked) --------------
InBounds(ptr, len) == ptr + len <= MemSize

MemGet(mem, ptr, len) == [i \in 1..len |-> mem[ptr + i]]

MemSet(mem, ptr, data) ==
    [i \in 1..MemSize |->
        IF i > ptr /\ i <= ptr + Len(data) THEN data[i - ptr] ELSE mem[i]]

\* ---- how a host call ends -----------------------------------------------
\* The record kept of a host call: its name, the error it trapped with, its
\* return value, the (ptr, len) region and the gas argument it was given, the
\* sum of the costs of its charges that succeeded, what the provider answered
\* (and the unused gas it reported), the state-changing provider methods it
\* invoked, whether it wrote sandbox memory, and the integer it returned.
\* (ptr2 is the second pointer of a host call that takes two; sent is the
\* addresses and value a sub-call handed to the provider; balance is the
\* balance the provider reported to a sub-call that passes a value.)
Call(op) ==
    [ op |-> op, err |-> "None", ret |-> "void", ptr |-> 0, len |-> 0,
      ptr2 |-> 0, gas |-> 0, charged |-> 0, ext_result |-> "None",
      unused |-> 0, invoked |-> {}, wrote |-> FALSE, val |-> 0,
      sent |-> <<>>, balance |-> <<>> ]

\* Ok(..): the host call returns to the contract, which keeps running.
Return(rec) == status' = "running" /\ last' = rec

\* (A dispatch that loses the error: the contract goes on after it.)
TrapResumes(rec, e) == status' = "running" /\ last' = [rec EXCEPT !.err = e]

\* Err(e): invoke_index hands the error to the engine, which unwinds.
Trap(rec, e) == status' = "trapped" /\ last' = [rec EXCEPT !.err = e]

\* An arithmetic overflow in a build with overflow checks: the thread panics.
Abort(rec) == status' = "aborted" /\ last' = [rec EXCEPT !.err = "Overflow"]

\* ---- gas accounting -----------------------------------------------------
\* What u64 arithmetic does when the exact result is out of range depends on
\* the build: it panics with overflow checks and wraps modulo 2^64 without.
\* Each operation yields the set of outcomes a build can produce.

\* prev + amount > self.gas_limit, then self.gas_counter = prev + amount
charge_gas(prev, amount) ==
    LET sum == prev + amount
        guarded(s) == IF s > gas_limit
                      THEN [res |-> "false", counter |-> prev]
                      ELSE [res |-> "true", counter |-> s] IN
    IF sum > MaxU64
    THEN {[res |-> "panic", counter |-> prev], guarded(sum % U64Mod)}
    ELSE {guarded(sum)}

\* a - b in u64
Sub64(a, b) ==
    IF b > a
    THEN {[res |-> "panic", val |-> a], [res |-> "ok", val |-> a - b + U64Mod]}
    ELSE {[res |-> "ok", val |-> a - b]}

\* a * b in u64
Mul64(a, b) ==
    IF a * b > MaxU64
    THEN {[res |-> "panic", val |-> a], [res |-> "ok", val |-> (a * b) % U64Mod]}
    ELSE {[res |-> "ok", val |-> a * b]}

\* ---- Option<T> ----------------------------------------------------------
None == <<>>
Some(x) == <<x>>

\* The record kept of one exec: the ActionParams (code, data, params_type,
\* gas) and the schedule's wasm.static_region it is given, where it stands,
\* what payload did (the peeked module size, the slice it deserialized, the
\* module and the input data it returned), what the resolver bound (host functions by name, the cached
\* memory), how the initial-memory charge went and what exec returned.
Exec(pc) ==
    [ pc |-> pc, code |-> None, data |-> None, params_type |-> "Separate",
      gas |-> 0, static_region |-> 0,
      peeked |-> 0, prefix |-> <<>>, module |-> None, input |-> <<>>,
      funcs |-> {}, mem |-> None, mem_request |-> None,
      charged |-> 0, error |-> "None", ret |-> None ]

\* ---- construction -------------------------------------------------------
\* Runtime::with_params on a zero-initialised memory instance.
Init ==
    /\ gas_counter = 0
    /\ gas_limit \in GasLimits
    /\ memory = [i \in 1..MemSize |-> 0]
    /\ args = <<255>>
    /\ result = <<>>
    /\ ext = [ storage |-> [k \in Words |-> [i \in 1..H256Len |-> 0]],
               suicided |-> FALSE ]
    /\ status = "running"
    /\ block_calls = 0
    /\ last = Call("none")
    /\ driver = Exec("run")

\* ---- host functions -----------------------------------------------------
\* Runtime::gas(amount: u32)
gas(amount) ==
    /\ status = "running"
    /\ \E c \in charge_gas(gas_counter, amount) :
       LET rec == [Call("gas") EXCEPT !.gas = amount] IN
       /\ gas_counter' = c.counter
       /\ CASE c.res = "panic" -> Abort(rec)
            [] c.res = "false" -> Trap(rec, "GasLimit")
            [] OTHER -> Return([rec EXCEPT !.charged = amount])
    /\ UNCHANGED <<gas_limit, memory, args, result, ext>>

\* (A ret that extends the return buffer instead of replacing it.)
ret_appends ==
    /\ status = "running"
    /\ \E ptr \in Ptrs, len \in Lens :
        LET rec == [Call("ret") EXCEPT !.ptr = ptr, !.len = len] IN
        IF InBounds(ptr, len)
        THEN /\ result' = result \o MemGet(memory, ptr, len)
             /\ Return(rec)
        ELSE /\ result' = result
             /\ Trap(rec, "MemoryAccessViolation")
    /\ UNCHANGED <<gas_counter, gas_limit, memory, args, ext>>

\* Runtime::ret(ptr, len)
ret ==
    /\ status = "running"
    /\ \E ptr \in Ptrs, len \in Lens :
        LET rec == [Call("ret") EXCEPT !.ptr = ptr, !.len = len] IN
        IF InBounds(ptr, len)
        THEN /\ result' = MemGet(memory, ptr, len)
             /\ Return(rec)
        ELSE /\ result' = result
             /\ Trap(rec, "MemoryAccessViolation")
    /\ UNCHANGED <<gas_counter, gas_limit, memory, args, ext>>

\* Runtime::storage_read(key_ptr, val_ptr)
storage_read ==
    /\ status = "running"
    /\ \E key_ptr \in Ptrs, val_ptr \in Ptrs :
        LET rec == [Call("storage_read") EXCEPT !.ptr = key_ptr,
                                                !.ptr2 = val_ptr] IN
        IF ~InBounds(key_ptr, H256Len)
        THEN /\ Trap(rec, "MemoryAccessViolation")
             /\ UNCHANGED <<gas_counter, memory>>
        ELSE \E provider_ok \in BOOLEAN :
            IF ~provider_ok
            THEN /\ Trap([rec EXCEPT !.ext_result = "Err"], "StorageReadError")
                 /\ UNCHANGED <<gas_counter, memory>>
            ELSE
            \E c \in charge_gas(gas_counter, schedule.sload_gas) :
            LET val == ext.storage[MemGet(memory, key_ptr, H256Len)]
                paid == [rec EXCEPT !.charged = schedule.sload_gas] IN
            /\ gas_counter' = c.counter
            /\ CASE c.res = "panic" -> Abort(rec) /\ UNCHANGED memory
                 [] c.res = "false" -> Trap(rec, "GasLimit") /\ UNCHANGED memory
                 [] OTHER ->
                    IF InBounds(val_ptr, Len(val))
                    THEN /\ memory' = MemSet(memory, val_ptr, val)
                         /\ Return([paid EXCEPT !.wrote = TRUE])
                    ELSE /\ Trap(paid, "MemoryAccessViolation")
                         /\ UNCHANGED memory
    /\ UNCHANGED <<gas_limit, args, result, ext>>

\* (A storage_write that reports success without storing the value.)
storage_write_drops ==
    /\ status = "running"
    /\ \E key_ptr \in Ptrs, val_ptr \in Ptrs :
        LET rec == [Call("storage_write") EXCEPT !.ptr = key_ptr,
                                                 !.ptr2 = val_ptr] IN
        IF ~InBounds(key_ptr, H256Len)
        THEN /\ Trap(rec, "MemoryAccessViolation")
             /\ UNCHANGED <<gas_counter, ext>>
        ELSE
        \E c \in charge_gas(gas_counter, schedule.sstore_set_gas) :
        LET key == MemGet(memory, key_ptr, H256Len)
            paid == [rec EXCEPT !.charged = schedule.sstore_set_gas] IN
        /\ gas_counter' = c.counter
        /\ CASE c.res = "panic" -> Abort(rec) /\ UNCHANGED ext
             [] c.res = "false" -> Trap(rec, "GasLimit") /\ UNCHANGED ext
             [] OTHER ->
                IF ~InBounds(val_ptr, H256Len)
                THEN Trap(paid, "MemoryAccessViolation") /\ UNCHANGED ext
                ELSE \E provider_ok \in BOOLEAN :
                    LET called == [paid EXCEPT !.invoked = {"set_storage"}] IN
                    IF provider_ok
                    THEN /\ ext' = ext
                         /\ Return(called)
                    ELSE /\ Trap([called EXCEPT !.ext_result = "Err"],
                              "StorageUpdateError")
                         /\ UNCHANGED ext
    /\ UNCHANGED <<gas_limit, memory, args, result>>

\* Runtime::storage_write(key_ptr, val_ptr)
storage_write ==
    /\ status = "running"
    /\ \E key_ptr \in Ptrs, val_ptr \in Ptrs :
        LET rec == [Call("storage_write") EXCEPT !.ptr = key_ptr,
                                                 !.ptr2 = val_ptr] IN
        IF ~InBounds(key_ptr, H256Len)
        THEN /\ Trap(rec, "MemoryAccessViolation")
             /\ UNCHANGED <<gas_counter, ext>>
        ELSE
        \E c \in charge_gas(gas_counter, schedule.sstore_set_gas) :
        LET key == MemGet(memory, key_ptr, H256Len)
            paid == [rec EXCEPT !.charged = schedule.sstore_set_gas] IN
        /\ gas_counter' = c.counter
        /\ CASE c.res = "panic" -> Abort(rec) /\ UNCHANGED ext
             [] c.res = "false" -> Trap(rec, "GasLimit") /\ UNCHANGED ext
             [] OTHER ->
                IF ~InBounds(val_ptr, H256Len)
                THEN Trap(paid, "MemoryAccessViolation") /\ UNCHANGED ext
                ELSE \E provider_ok \in BOOLEAN :
                    LET called == [paid EXCEPT !.invoked = {"set_storage"}] IN
                    IF provider_ok
                    THEN /\ ext' = [ext EXCEPT !.storage[key] =
                                        MemGet(memory, val_ptr, H256Len)]
                         /\ Return(called)
                    ELSE /\ Trap([called EXCEPT !.ext_result = "Err"],
                              "StorageUpdateError")
                         /\ UNCHANGED ext
    /\ UNCHANGED <<gas_limit, memory, args, result>>

\* n as i32, read back by the contract as the u32 with the same bits
AsU32(n) == n % (MaxU32 + 1)

\* Runtime::input_legnth
input_length ==
    /\ status = "running"
    /\ Return([Call("input_length") EXCEPT !.ret = "i32",
                                           !.val = AsU32(Len(args))])
    /\ UNCHANGED <<gas_counter, gas_limit, memory, args, result, ext>>

\* (A fetch_input that reserves the buffer without copying the input.)
fetch_input_clears ==
    /\ status = "running"
    /\ \E ptr \in Ptrs :
        LET rec == [Call("fetch_input") EXCEPT !.ptr = ptr] IN
        IF InBounds(ptr, Len(args))
        THEN /\ memory' = MemSet(memory, ptr, [i \in 1..Len(args) |-> 0])
             /\ Return([rec EXCEPT !.wrote = TRUE])
        ELSE /\ Trap(rec, "MemoryAccessViolation")
             /\ UNCHANGED memory
    /\ UNCHANGED <<gas_counter, gas_limit, args, result, ext>>

\* Runtime::fetch_input(ptr)
fetch_input ==
    /\ status = "running"
    /\ \E ptr \in Ptrs :
        LET rec == [Call("fetch_input") EXCEPT !.ptr = ptr] IN
        IF InBounds(ptr, Len(args))
        THEN /\ memory' = MemSet(memory, ptr, args)
             /\ Return([rec EXCEPT !.wrote = TRUE])
        ELSE /\ Trap(rec, "MemoryAccessViolation")
             /\ UNCHANGED memory
    /\ UNCHANGED <<gas_counter, gas_limit, args, result, ext>>

\* Runtime::panic(payload_ptr, payload_len)
panic ==
    /\ status = "running"
    /\ \E payload_ptr \in Ptrs, payload_len \in Lens :
        IF InBounds(payload_ptr, payload_len)
        THEN Trap(Call("panic"), "Panic")
        ELSE Trap(Call("panic"), "MemoryAccessViolation")
    /\ UNCHANGED <<gas_counter, gas_limit, memory, args, result, ext>>

\* String::from_utf8 on the bytes of the model: 0xFF is never valid UTF-8.
ValidUtf8(bytes) == \A i \in DOMAIN bytes : bytes[i] # 255

\* Runtime::debug(msg_ptr, msg_len)
debug ==
    /\ status = "running"
    /\ \E msg_ptr \in Ptrs, msg_len \in Lens :
        IF ~InBounds(msg_ptr, msg_len)
        THEN Trap(Call("debug"), "MemoryAccessViolation")
        ELSE IF ~ValidUtf8(MemGet(memory, msg_ptr, msg_len))
        THEN Trap(Call("debug"), "BadUtf8")
        ELSE Return(Call("debug"))
    /\ UNCHANGED <<gas_counter, gas_limit, memory, args, result, ext>>

\* a < b on U256 values held as big-endian words
RECURSIVE U256Less(_, _)
U256Less(a, b) ==
    IF Len(a) = 0 THEN FALSE
    ELSE IF Head(a) # Head(b) THEN Head(a) < Head(b)
    ELSE U256Less(Tail(a), Tail(b))

\* What ext.call and ext.create can answer when handed `given` gas: the
\* provider never reports more unused gas than it was given.
\* (None of it, one unit of it, or all of it.)
UnusedGas(given) == {g \in {0, 1, given} : g <= given}

CallResults(given) ==
    {[kind |-> "Failed", gas_left |-> 0]} \cup
    {[kind |-> k, gas_left |-> g] :
        k \in {"Success", "Reverted"}, g \in UnusedGas(given)}

CreateResults(given) ==
    {[kind |-> "Failed", gas_left |-> 0]} \cup
    {[kind |-> k, gas_left |-> g] :
        k \in {"Created", "Reverted"}, g \in UnusedGas(given)}

\* What ext.balance(&self.context.address) can answer: an error, or a balance.
Balances ==
    {[ok |-> FALSE, val |-> [i \in 1..H256Len |-> 0]]} \cup
    {[ok |-> TRUE, val |-> w] : w \in Words}

\* (A sender that is the current contract whatever the call type.)
sender_address_own(call_type) == context.address

\* match call_type { DelegateCall => &self.context.sender,
\*                   _ => &self.context.address }
sender_address(call_type) ==
    IF call_type = "DelegateCall" THEN context.sender ELSE context.address

\* match call_type { Call | StaticCall => &address,
\*                   _ => &self.context.address }
receive_address(call_type, address) ==
    IF call_type \in {"Call", "StaticCall"} THEN address ELSE context.address

\* (A balance check that lets every value through.)
balance_check_passes(use_val, address_balance, val) == FALSE

\* if let Some(ref val) = val { .. if &address_balance < val { return Ok(-1) } }
balance_check(use_val, address_balance, val) ==
    use_val /\ U256Less(address_balance, val)

\* Runtime::do_call(use_val, call_type, args)
do_call(use_val, call_type, op) ==
    /\ status = "running"
    /\ \E fwd \in ForwardedGas, address_ptr \in EdgePtrs :
        LET rec == [Call(op) EXCEPT !.gas = fwd] IN
        IF ~InBounds(address_ptr, AddressLen)
        THEN /\ Trap(rec, "MemoryAccessViolation")
             /\ UNCHANGED <<gas_counter, memory>>
        ELSE \E val_ptr \in (IF use_val THEN EdgePtrs ELSE {0}) :
        IF use_val /\ ~InBounds(val_ptr, H256Len)
        THEN /\ Trap(rec, "MemoryAccessViolation")
             /\ UNCHANGED <<gas_counter, memory>>
        ELSE \E balance \in (IF use_val THEN Balances
                                         ELSE {[ok |-> TRUE, val |-> <<>>]}) :
        IF use_val /\ ~balance.ok
        THEN /\ Trap(rec, "BalanceQueryError")
             /\ UNCHANGED <<gas_counter, memory>>
        ELSE
        LET asked == [rec EXCEPT !.ptr2 = val_ptr,
                                 !.balance = IF use_val THEN Some(balance.val)
                                             ELSE None] IN
        IF balance_check(use_val, balance.val, MemGet(memory, val_ptr, H256Len))
        THEN /\ Return([asked EXCEPT !.ret = "-1"])
             /\ UNCHANGED <<gas_counter, memory>>
        ELSE
        \E c1 \in charge_gas(gas_counter, schedule.call_gas) :
        LET paid1 == [asked EXCEPT !.charged = schedule.call_gas] IN
        CASE c1.res = "panic" ->
                Abort(asked) /\ UNCHANGED <<gas_counter, memory>>
          [] c1.res = "false" ->
                Trap(asked, "GasLimit") /\ UNCHANGED <<gas_counter, memory>>
          [] OTHER ->
            \E input \in CallRegions :
            IF ~InBounds(input[1], input[2])
            THEN /\ Trap(paid1, "MemoryAccessViolation")
                 /\ gas_counter' = c1.counter
                 /\ UNCHANGED memory
            ELSE
            \E c2 \in charge_gas(c1.counter, fwd) :
            LET paid2 == [asked EXCEPT !.charged = schedule.call_gas + fwd] IN
            CASE c2.res = "panic" ->
                    /\ Abort(paid1)
                    /\ gas_counter' = c1.counter
                    /\ UNCHANGED memory
              [] c2.res = "false" ->
                    /\ Trap(paid1, "GasLimit")
                    /\ gas_counter' = c1.counter
                    /\ UNCHANGED memory
              [] OTHER ->
                \E call_result \in CallResults(fwd) :
                LET address == MemGet(memory, address_ptr, AddressLen)
                    val == IF use_val
                           THEN Some(MemGet(memory, val_ptr, H256Len))
                           ELSE None
                    called == [paid2 EXCEPT
                        !.invoked = {"call"},
                        !.ext_result = call_result.kind,
                        !.unused = call_result.gas_left,
                        !.ptr = address_ptr, !.ptr2 = val_ptr,
                        !.sent = [ sender_address |->
                                       sender_address(call_type),
                                   receive_address |->
                                       receive_address(call_type, address),
                                   value |-> val,
                                   code_address |-> address,
                                   call_type |-> call_type ]] IN
                IF call_result.kind = "Failed"
                THEN /\ Return([called EXCEPT !.ret = "-1"])
                     /\ gas_counter' = c2.counter
                     /\ UNCHANGED memory
                ELSE
                \E refund \in Sub64(c2.counter, call_result.gas_left) :
                IF refund.res = "panic"
                THEN /\ Abort(called)
                     /\ gas_counter' = c2.counter
                     /\ UNCHANGED memory
                ELSE
                /\ gas_counter' = refund.val
                /\ \E output \in CallRegions :
                    IF ~InBounds(output[1], output[2])
                    THEN /\ Trap(called, "MemoryAccessViolation")
                         /\ UNCHANGED memory
                    ELSE \E buffer \in [1..output[2] -> Byte] :
                         /\ memory' = MemSet(memory, output[1], buffer)
                         /\ Return([called EXCEPT
                                !.wrote = TRUE,
                                !.ret = IF call_result.kind = "Success"
                                        THEN "0" ELSE "-1"])
    /\ UNCHANGED <<gas_limit, args, result, ext>>

\* Runtime::ccall / dcall / scall
ccall == do_call(TRUE, "Call", "ccall")

dcall == do_call(FALSE, "DelegateCall", "dcall")

scall == do_call(FALSE, "StaticCall", "scall")

\* (A store made before the charge that pays for it.)
return_ptr_store_first(op, cost, ptr, val) ==
    \E c \in charge_gas(gas_counter, cost) :
    LET stored == [Call(op) EXCEPT !.wrote = TRUE] IN
    IF ~InBounds(ptr, Len(val))
    THEN /\ Trap(Call(op), "MemoryAccessViolation")
         /\ UNCHANGED <<gas_counter, memory>>
    ELSE /\ memory' = MemSet(memory, ptr, val)
         /\ gas_counter' = c.counter
         /\ CASE c.res = "panic" -> Abort(stored)
              [] c.res = "false" -> Trap(stored, "GasLimit")
              [] OTHER -> Return([stored EXCEPT !.charged = cost])

\* Runtime::return_address_ptr / Runtime::return_u256_ptr: charge, then store.
return_ptr(op, cost, ptr, val) ==
    \E c \in charge_gas(gas_counter, cost) :
    LET paid == [Call(op) EXCEPT !.charged = cost] IN
    /\ gas_counter' = c.counter
    /\ CASE c.res = "panic" -> Abort(Call(op)) /\ UNCHANGED memory
         [] c.res = "false" -> Trap(Call(op), "GasLimit") /\ UNCHANGED memory
         [] OTHER ->
            IF InBounds(ptr, Len(val))
            THEN /\ memory' = MemSet(memory, ptr, val)
                 /\ Return([paid EXCEPT !.wrote = TRUE])
            ELSE /\ Trap(paid, "MemoryAccessViolation")
                 /\ UNCHANGED memory

\* Runtime::value(ptr)
value ==
    /\ status = "running"
    /\ \E ptr \in Ptrs :
        return_ptr("value", schedule.wasm.static_u256, ptr, context.value)
    /\ UNCHANGED <<gas_limit, args, result, ext>>

\* Runtime::coinbase(ptr)
coinbase ==
    /\ status = "running"
    /\ \E ptr \in Ptrs, author \in Addresses :
        return_ptr("coinbase", schedule.wasm.static_address, ptr, author)
    /\ UNCHANGED <<gas_limit, args, result, ext>>

\* Runtime::difficulty(ptr)
difficulty ==
    /\ status = "running"
    /\ \E ptr \in Ptrs, env_difficulty \in Words :
        return_ptr("difficulty", schedule.wasm.static_u256, ptr, env_difficulty)
    /\ UNCHANGED <<gas_limit, args, result, ext>>

\* Runtime::gaslimit(ptr)
gaslimit ==
    /\ status = "running"
    /\ \E ptr \in Ptrs, env_gas_limit \in Words :
        return_ptr("gaslimit", schedule.wasm.static_u256, ptr, env_gas_limit)
    /\ UNCHANGED <<gas_limit, args, result, ext>>

\* Runtime::blockhash(number, ptr)
blockhash ==
    /\ status = "running"
    /\ \E ptr \in Ptrs, hash \in Words :
        return_ptr("blockhash", schedule.blockhash_gas, ptr, hash)
    /\ UNCHANGED <<gas_limit, args, result, ext>>

\* Runtime::blocknumber
blocknumber ==
    /\ status = "running"
    /\ Return([Call("blocknumber") EXCEPT !.ret = "i64"])
    /\ UNCHANGED <<gas_counter, gas_limit, memory, args, result, ext>>

\* Runtime::timestamp
timestamp ==
    /\ status = "running"
    /\ Return([Call("timestamp") EXCEPT !.ret = "i64"])
    /\ UNCHANGED <<gas_counter, gas_limit, memory, args, result, ext>>

\* (A suicide that marks the contract before it has paid for it.)
suicide_marks_first ==
    /\ status = "running"
    /\ \E refund_ptr \in Ptrs :
        LET rec == Call("suicide") IN
        IF ~InBounds(refund_ptr, AddressLen)
        THEN /\ Trap(rec, "MemoryAccessViolation")
             /\ UNCHANGED <<gas_counter, ext>>
        ELSE \E exists \in {"Err", "true", "false"} :
        IF exists = "Err"
        THEN /\ Trap([rec EXCEPT !.ext_result = exists], "SuicideAbort")
             /\ UNCHANGED <<gas_counter, ext>>
        ELSE
        LET cost == IF exists = "true" THEN schedule.suicide_gas
                    ELSE schedule.suicide_to_new_account_cost
            called == [rec EXCEPT !.charged = cost, !.ext_result = exists,
                                  !.invoked = {"suicide"}] IN
        \E c \in charge_gas(gas_counter, cost) :
        /\ gas_counter' = c.counter
        /\ ext' = [ext EXCEPT !.suicided = TRUE]
        /\ CASE c.res = "panic" -> Abort(called)
             [] c.res = "false" -> Trap(called, "GasLimit")
             [] OTHER -> Trap(called, "Suicide")
    /\ UNCHANGED <<gas_limit, memory, args, result>>

\* Runtime::suicide(refund_ptr)
suicide ==
    /\ status = "running"
    /\ \E refund_ptr \in Ptrs :
        LET rec == Call("suicide") IN
        IF ~InBounds(refund_ptr, AddressLen)
        THEN /\ Trap(rec, "MemoryAccessViolation")
             /\ UNCHANGED <<gas_counter, ext>>
        ELSE \E exists \in {"Err", "true", "false"} :
        IF exists = "Err"
        THEN /\ Trap([rec EXCEPT !.ext_result = exists], "SuicideAbort")
             /\ UNCHANGED <<gas_counter, ext>>
        ELSE
        LET cost == IF exists = "true" THEN schedule.suicide_gas
                    ELSE schedule.suicide_to_new_account_cost
            paid == [rec EXCEPT !.charged = cost, !.ext_result = exists] IN
        \E c \in charge_gas(gas_counter, cost) :
        /\ gas_counter' = c.counter
        /\ CASE c.res = "panic" -> Abort(paid) /\ UNCHANGED ext
             [] c.res = "false" -> Trap(paid, "GasLimit") /\ UNCHANGED ext
             [] OTHER ->
                \E provider_ok \in BOOLEAN :
                LET called == [paid EXCEPT !.invoked = {"suicide"}] IN
                IF provider_ok
                THEN /\ ext' = [ext EXCEPT !.suicided = TRUE]
                     /\ Trap(called, "Suicide")
                ELSE /\ Trap(called, "SuicideAbort")
                     /\ UNCHANGED ext
    /\ UNCHANGED <<gas_limit, memory, args, result>>

\* Runtime::create(endowment_ptr, code_ptr, code_len, result_ptr)
create ==
    /\ status = "running"
    /\ \E endowment_ptr \in EdgePtrs :
        LET rec == Call("create") IN
        IF ~InBounds(endowment_ptr, H256Len)
        THEN /\ Trap(rec, "MemoryAccessViolation")
             /\ UNCHANGED <<gas_counter, memory>>
        ELSE \E code \in CodeRegions :
        LET code_len == code[2]
            read == [rec EXCEPT !.ptr = code[1], !.len = code_len] IN
        IF ~InBounds(code[1], code_len)
        THEN /\ Trap(rec, "MemoryAccessViolation")
             /\ UNCHANGED <<gas_counter, memory>>
        ELSE
        \E c1 \in charge_gas(gas_counter, schedule.create_gas),
           data_gas \in Mul64(schedule.create_data_gas, code_len) :
        LET paid1 == [read EXCEPT !.charged = schedule.create_gas] IN
        CASE c1.res = "panic" ->
                Abort(read) /\ UNCHANGED <<gas_counter, memory>>
          [] c1.res = "false" ->
                Trap(read, "GasLimit") /\ UNCHANGED <<gas_counter, memory>>
          [] data_gas.res = "panic" ->
                /\ Abort(paid1)
                /\ gas_counter' = c1.counter
                /\ UNCHANGED memory
          [] OTHER ->
            \E c2 \in charge_gas(c1.counter, data_gas.val) :
            LET paid2 == [read EXCEPT !.charged =
                    schedule.create_gas + schedule.create_data_gas * code_len] IN
            CASE c2.res = "panic" ->
                    /\ Abort(paid1)
                    /\ gas_counter' = c1.counter
                    /\ UNCHANGED memory
              [] c2.res = "false" ->
                    /\ Trap(paid1, "GasLimit")
                    /\ gas_counter' = c1.counter
                    /\ UNCHANGED memory
              [] c2.counter > gas_limit ->
                    \* self.gas_left()? is Err(InvalidGasState)
                    /\ Trap(paid2, "InvalidGasState")
                    /\ gas_counter' = c2.counter
                    /\ UNCHANGED memory
              [] OTHER ->
                LET budget == gas_limit - c2.counter IN
                \E create_result \in CreateResults(budget) :
                LET called == [paid2 EXCEPT !.invoked = {"create"},
                                            !.gas = budget,
                                            !.ext_result = create_result.kind,
                                            !.unused = create_result.gas_left] IN
                CASE create_result.kind = "Created" ->
                        \E result_ptr \in Ptrs, address \in Addresses :
                        IF ~InBounds(result_ptr, AddressLen)
                        THEN /\ Trap(called, "MemoryAccessViolation")
                             /\ gas_counter' = c2.counter
                             /\ UNCHANGED memory
                        ELSE /\ memory' = MemSet(memory, result_ptr, address)
                             /\ gas_counter' = gas_limit - create_result.gas_left
                             /\ Return([called EXCEPT !.wrote = TRUE,
                                                      !.ret = "0"])
                  [] create_result.kind = "Failed" ->
                        /\ Return([called EXCEPT !.ret = "-1"])
                        /\ gas_counter' = c2.counter
                        /\ UNCHANGED memory
                  [] OTHER ->
                        /\ gas_counter' = gas_limit - create_result.gas_left
                        /\ Return([called EXCEPT !.ret = "-1"])
                        /\ UNCHANGED memory
    /\ UNCHANGED <<gas_limit, args, result, ext>>

\* ---- the contract as the engine runs it ---------------------------------
\* Any host call, with any arguments, while the contract is running.
Next ==
    \/ (\E amount \in U32 : gas(amount)) /\ UNCHANGED <<block_calls, driver>>
    \/ storage_read /\ UNCHANGED <<block_calls, driver>>
    \/ storage_write /\ UNCHANGED <<block_calls, driver>>
    \/ ret /\ UNCHANGED <<block_calls, driver>>
    \/ input_length /\ UNCHANGED <<block_calls, driver>>
    \/ fetch_input /\ UNCHANGED <<block_calls, driver>>
    \/ panic /\ UNCHANGED <<block_calls, driver>>
    \/ debug /\ UNCHANGED <<block_calls, driver>>
    \/ ccall /\ UNCHANGED <<block_calls, driver>>
    \/ dcall /\ UNCHANGED <<block_calls, driver>>
    \/ scall /\ UNCHANGED <<block_calls, driver>>
    \/ value /\ UNCHANGED <<block_calls, driver>>
    \/ create /\ UNCHANGED <<block_calls, driver>>
    \/ suicide /\ UNCHANGED <<block_calls, driver>>
    \/ blockhash /\ UNCHANGED <<block_calls, driver>>
    \/ blocknumber /\ UNCHANGED <<block_calls, driver>>
    \/ coinbase /\ UNCHANGED <<block_calls, driver>>
    \/ difficulty /\ UNCHANGED <<block_calls, driver>>
    \/ gaslimit /\ UNCHANGED <<block_calls, driver>>
    \/ timestamp /\ UNCHANGED <<block_calls, driver>>

Spec == Init /\ [][Next]_vars

\* ---- the contract under the metering the injector adds -------------------
\* Every basic block begins with gas(amount), amount >= 1, and makes at most
\* MaxBlockCalls other host calls before the next block begins.
MaxBlockCalls == 1

InBlock ==
    /\ block_calls < MaxBlockCalls
    /\ block_calls' = block_calls + 1
    /\ UNCHANGED driver

\* The contract's entry point returns: the run completes normally.
Finish ==
    /\ status = "running"
    /\ status' = "done"
    /\ UNCHANGED <<gas_counter, gas_limit, memory, args, result, ext,
                   block_calls, last, driver>>

LiveNext ==
    \/ (\E amount \in 1..MaxU32 : gas(amount))
            /\ block_calls' = 0 /\ UNCHANGED driver
    \/ storage_read /\ InBlock
    \/ storage_write /\ InBlock
    \/ ret /\ InBlock
    \/ input_length /\ InBlock
    \/ fetch_input /\ InBlock
    \/ panic /\ InBlock
    \/ debug /\ InBlock
    \/ ccall /\ InBlock
    \/ dcall /\ InBlock
    \/ scall /\ InBlock
    \/ value /\ InBlock
    \/ create /\ InBlock
    \/ suicide /\ InBlock
    \/ blockhash /\ InBlock
    \/ blocknumber /\ InBlock
    \/ coinbase /\ InBlock
    \/ difficulty /\ InBlock
    \/ gaslimit /\ InBlock
    \/ timestamp /\ InBlock
    \/ Finish

\* The engine never pauses a running contract: it keeps taking steps.
LiveSpec == Init /\ [][LiveNext]_vars /\ WF_vars(LiveNext)

\* ==== the driver: payload splitter, import resolver, exec ================

\* ---- bounds and scaled constants of the driver --------------------------
MaxCodeLen == 2

\* ImportResolver::with_limit(64): the page cap of the driver
MemoryCap == 2
\* 64 * 1024: the factor of a page in the initial-memory charge
PageBytes == 2
\* 2^16 as the driver's comment means it: 65536
StaticRegionBound == 3
\* 2^16 as the assertion evaluates it: 2 xor 16 = 18
AssertedBound == 2

\* ---- what exec is given -------------------------------------------------
Blob(n) == [i \in 1..n |-> i]
CodeBlobs == {Blob(n) : n \in 0..MaxCodeLen}
DataBlobs == {None, Some(<<255>>)}
\* params.gas is a U256: values up to and beyond u64::MAX
GasParams == {1, MaxU64, MaxU64 + 1, MaxU64 + 2}
StaticRegions == 0..StaticRegionBound

\* ---- import resolver (env.rs) -------------------------------------------
\* env::ids
ids ==
    [ storage_read |-> 10, ret |-> 20, gas |-> 30, fetch_input |-> 40,
      input_length |-> 50, panic |-> 100 ]

\* ImportResolver::resolve_func(field_name, signature)
resolve_func(field_name) ==
    IF field_name \in {"storage_read", "ret", "gas", "input_length",
                       "fetch_input", "panic"}
    THEN [ok |-> TRUE, idx |-> ids[field_name], err |-> "None"]
    ELSE [ok |-> FALSE, idx |-> 0, err |-> "Export not found"]

\* (A resolver that lets a module request as many pages as the cap.)
resolve_memory_inclusive(max_memory, field_name, descriptor) ==
    IF field_name = "memory"
    THEN IF \/ descriptor.initial > max_memory
            \/ /\ descriptor.maximum # None
               /\ \/ descriptor.maximum[1] < descriptor.initial
                  \/ descriptor.maximum[1] > max_memory
         THEN [ok |-> FALSE, mem |-> None,
               err |-> "Module requested too much memory"]
         ELSE [ok |-> TRUE, mem |-> Some(descriptor), err |-> "None"]
    ELSE [ok |-> FALSE, mem |-> None,
          err |-> "Memory imported under unknown name"]

\* ImportResolver::resolve_memory(field_name, descriptor)
resolve_memory(max_memory, field_name, descriptor) ==
    IF field_name = "memory"
    THEN IF \/ descriptor.initial >= max_memory
            \/ /\ descriptor.maximum # None
               /\ \/ descriptor.maximum[1] < descriptor.initial
                  \/ descriptor.maximum[1] > max_memory
         THEN [ok |-> FALSE, mem |-> None,
               err |-> "Module requested too much memory"]
         ELSE [ok |-> TRUE, mem |-> Some(descriptor), err |-> "None"]
    ELSE [ok |-> FALSE, mem |-> None,
          err |-> "Memory imported under unknown name"]

\* ImportResolver::memory_ref: the cached memory, or a fresh (0, Some(0)) one
memory_ref(mem) ==
    IF mem = None THEN Some([initial |-> 0, maximum |-> Some(0)]) ELSE mem

\* ImportResolver::memory_size: the pages of the memory instance
memory_size(mem) == memory_ref(mem)[1].initial

\* ---- the modules a code blob can hold -----------------------------------
\* An import of namespace env: a function, or a memory with its descriptor.
FuncImport(name) ==
    [kind |-> "func", name |-> name, initial |-> 0, maximum |-> None]
MemoryImport(name, initial, maximum) ==
    [kind |-> "memory", name |-> name, initial |-> initial, maximum |-> maximum]

\* The names of the table of host functions, and one outside it.
TableNames ==
    { "storage_read", "storage_write", "ret", "gas", "fetch_input",
      "input_length", "panic", "debug", "ccall", "dcall", "scall", "value",
      "create", "suicide", "blockhash", "blocknumber", "coinbase",
      "difficulty", "gaslimit", "timestamp", "memcpy", "memcmp" }
FuncImports == {FuncImport(n) : n \in TableNames \cup {"nosuch"}}

Pages == 0..(MemoryCap + 1)
MemoryImports ==
    {MemoryImport("memory", i, m) :
        i \in Pages, m \in {None} \cup {Some(x) : x \in Pages}}
    \cup {MemoryImport("mem", 1, None)}

\* A deserialized module: its imports in order, and whether the engine's
\* validation accepts it.
Modules ==
    {[imports |-> <<>>, valid |-> v] : v \in BOOLEAN}
    \cup {[imports |-> <<f>>, valid |-> TRUE] : f \in FuncImports}
    \cup {[imports |-> <<m>>, valid |-> TRUE] : m \in MemoryImports}
    \cup {[imports |-> <<m, f>>, valid |-> TRUE] :
            m \in MemoryImports, f \in {FuncImport("ret"), FuncImport("nosuch")}}
    \cup {[imports |-> <<FuncImport("nosuch"), MemoryImport("memory", 1, None)>>,
           valid |-> TRUE]}

\* ---- payload splitter (parser.rs) ---------------------------------------
\* parity_wasm::peek_size(code): the wire length the blob declares for its
\* module.  payload uses the value as it comes.
peek_size(code) == 0..(Len(code) + 1)

\* elements::Module::deserialize over the slice, then inject_gas_counter:
\* an error, or one of the modules (no module fits in an empty slice).
Deserialize(slice) ==
    {[ok |-> FALSE, module |-> None]} \cup
    (IF Len(slice) = 0 THEN {}
     ELSE {[ok |-> TRUE, module |-> Some(m)] : m \in Modules})

\* exec returns Err(vm::Error::Wasm(msg))
ExecFails(msg) == driver' = [driver EXCEPT !.pc = "done", !.error = msg]

\* parser::payload(&params, ext.schedule()), the first statement of exec
payload ==
    /\ driver.pc = "payload"
    /\ IF driver.code = None
       THEN ExecFails("Invalid wasm call")
       ELSE LET code == driver.code[1]
                embedded == driver.params_type = "Embedded" IN
            \E module_size \in (IF embedded THEN peek_size(code) ELSE {0}) :
            IF embedded /\ module_size > Len(code)
            THEN \* &code[..module_size]: slice index out of range
                 driver' = [driver EXCEPT !.pc = "aborted",
                                          !.peeked = module_size,
                                          !.error = "panic"]
            ELSE
            LET slice == IF embedded THEN SubSeq(code, 1, module_size)
                         ELSE code
                data_position == module_size
                data == IF embedded
                        THEN IF data_position < Len(code)
                             THEN SubSeq(code, data_position + 1, Len(code))
                             ELSE <<>>
                        ELSE IF driver.data = None THEN <<>>
                             ELSE driver.data[1] IN
            \E parsed \in Deserialize(slice) :
                IF ~parsed.ok
                THEN driver' = [driver EXCEPT
                        !.pc = "done", !.peeked = module_size,
                        !.prefix = slice,
                        !.error = "Error deserializing contract code"]
                ELSE driver' = [driver EXCEPT
                        !.pc = "instantiate", !.peeked = module_size,
                        !.prefix = slice,
                        !.module = parsed.module, !.input = data]
    /\ UNCHANGED <<gas_counter, gas_limit, memory, args, result, ext,
                   status, block_calls, last>>

\* ---- exec (lib.rs) ------------------------------------------------------
\* The engine resolving the imports of the module in order through the
\* resolver, stopping at the first error.
RECURSIVE ResolveImports(_, _)
ResolveImports(imports, st) ==
    IF Len(imports) = 0 \/ st.err # "None" THEN st
    ELSE LET imp == Head(imports) IN
         IF imp.kind = "func"
         THEN LET r == resolve_func(imp.name) IN
              ResolveImports(Tail(imports),
                  IF r.ok
                  THEN [st EXCEPT !.funcs = @ \cup {<<imp.name, r.idx>>}]
                  ELSE [st EXCEPT !.err = r.err])
         ELSE LET r == resolve_memory(MemoryCap, imp.name,
                          [initial |-> imp.initial, maximum |-> imp.maximum]) IN
              ResolveImports(Tail(imports),
                  [st EXCEPT !.mem_request = Some(imp),
                             !.mem = IF r.ok THEN r.mem ELSE @,
                             !.err = r.err])

\* Module::from_parity_wasm_module, ImportResolver::with_limit(64) and
\* ModuleInstance::new with the resolver on namespace env
instantiate ==
    /\ driver.pc = "instantiate"
    /\ LET module == driver.module[1] IN
       IF ~module.valid
       THEN ExecFails("Validation")
       ELSE LET st == ResolveImports(module.imports,
                        [funcs |-> {}, mem |-> None, mem_request |-> None,
                         err |-> "None"]) IN
            driver' = [driver EXCEPT
                        !.pc = IF st.err = "None" THEN "gas_check" ELSE "done",
                        !.funcs = st.funcs, !.mem = st.mem,
                        !.mem_request = st.mem_request, !.error = st.err]
    /\ UNCHANGED <<gas_counter, gas_limit, memory, args, result, ext,
                   status, block_calls, last>>

\* (A driver that takes the low 64 bits of the gas without looking at it.)
gas_check_skipped ==
    /\ driver.pc = "gas_check"
    /\ driver' = [driver EXCEPT !.pc = "with_params"]
    /\ UNCHANGED <<gas_counter, gas_limit, memory, args, result, ext,
                   status, block_calls, last>>

\* if params.gas > ::std::u64::MAX.into() { return Err(..) }
gas_check ==
    /\ driver.pc = "gas_check"
    /\ IF driver.gas > MaxU64
       THEN ExecFails("Wasm interpreter cannot run contracts with gas >= 2^64")
       ELSE driver' = [driver EXCEPT !.pc = "with_params"]
    /\ UNCHANGED <<gas_counter, gas_limit, memory, args, result, ext,
                   status, block_calls, last>>

\* U256::low_u64
low_u64(n) == n % U64Mod

\* instantiation_resolover.memory_size(), then Runtime::with_params(ext,
\* memory_ref(), params.gas.low_u64(), [input,] context)
with_params ==
    /\ driver.pc = "with_params"
    /\ driver' = [driver EXCEPT !.pc = "charge", !.mem = memory_ref(driver.mem)]
    /\ gas_counter' = 0
    /\ gas_limit' = low_u64(driver.gas)
    /\ args' = driver.input
    /\ result' = <<>>
    /\ status' = "running"
    /\ UNCHANGED <<memory, ext, block_calls, last>>

\* assert!(static_region < 2^16), then
\* runtime.charge(|s| initial_memory as u64 * 64 * 1024 * s.wasm.static_region)
initial_memory_charge ==
    /\ driver.pc = "charge"
    /\ IF ~(driver.static_region < AssertedBound)
       THEN /\ driver' = [driver EXCEPT !.pc = "aborted", !.error = "panic"]
            /\ status' = "aborted"
            /\ UNCHANGED gas_counter
       ELSE \E bytes \in Mul64(memory_size(driver.mem), PageBytes) :
            IF bytes.res = "panic"
            THEN /\ driver' = [driver EXCEPT !.pc = "aborted", !.error = "panic"]
                 /\ status' = "aborted"
                 /\ UNCHANGED gas_counter
            ELSE
            \E amount \in Mul64(bytes.val, driver.static_region) :
            IF amount.res = "panic"
            THEN /\ driver' = [driver EXCEPT !.pc = "aborted", !.error = "panic"]
                 /\ status' = "aborted"
                 /\ UNCHANGED gas_counter
            ELSE
            \E c \in charge_gas(gas_counter, amount.val) :
            CASE c.res = "panic" ->
                    /\ driver' = [driver EXCEPT !.pc = "aborted",
                                                !.error = "panic"]
                    /\ status' = "aborted"
                    /\ UNCHANGED gas_counter
              [] c.res = "false" ->
                    /\ ExecFails("GasLimit")
                    /\ status' = "trapped"
                    /\ UNCHANGED gas_counter
              [] OTHER ->
                    /\ driver' = [driver EXCEPT !.pc = "return",
                                                !.charged = amount.val]
                    /\ gas_counter' = c.counter
                    /\ UNCHANGED status
    /\ UNCHANGED <<gas_limit, memory, args, result, ext, block_calls, last>>

\* vm::GasLeft
Known(gas_left) ==
    [kind |-> "Known", gas_left |-> gas_left, data |-> <<>>,
     apply_state |-> FALSE]
NeedsReturn(gas_left, data) ==
    [kind |-> "NeedsReturn", gas_left |-> gas_left, data |-> data,
     apply_state |-> TRUE]

\* Ok(GasLeft::Known(0.into())), the last expression of exec
exec_return ==
    /\ driver.pc = "return"
    /\ driver' = [driver EXCEPT !.pc = "done", !.ret = Some(Known(0))]
    /\ status' = "done"
    /\ UNCHANGED <<gas_counter, gas_limit, memory, args, result, ext,
                   block_calls, last>>

\* exec is called: no Runtime exists yet.
DriverInit ==
    /\ \E code \in {None} \cup {Some(b) : b \in CodeBlobs},
          data \in DataBlobs,
          params_type \in {"Embedded", "Separate"},
          gas_param \in GasParams,
          static_region \in StaticRegions :
        driver = [Exec("payload") EXCEPT
                    !.code = code, !.data = data,
                    !.params_type = params_type, !.gas = gas_param,
                    !.static_region = static_region]
    /\ gas_counter = 0
    /\ gas_limit = 0
    /\ memory = [i \in 1..MemSize |-> 0]
    /\ args = <<>>
    /\ result = <<>>
    /\ ext = [ storage |-> [k \in Words |-> [i \in 1..H256Len |-> 0]],
               suicided |-> FALSE ]
    /\ status = "absent"
    /\ block_calls = 0
    /\ last = Call("none")

DriverNext ==
    \/ payload
    \/ instantiate
    \/ gas_check
    \/ with_params
    \/ initial_memory_charge
    \/ exec_return

DriverSpec == DriverInit /\ [][DriverNext]_vars

\* ==== claims ============================================================

\* C1: between host calls gas_counter <= gas_limit, so gas_left() never
\* returns InvalidGasState (the provider reports no more unused gas than it
\* was given).
C1_GasWithinLimit == status = "running" => gas_counter <= gas_limit

\* C2: a charge whose cost would make gas_counter + cost exceed gas_limit
\* returns GasLimit and leaves gas_counter unchanged; a charge that fits adds
\* exactly its cost and leaves gas_limit unchanged.  Stated of the gas host
\* call, and of every host call: the costs of the charges that succeeded fit
\* under gas_limit.
C2_ChargeGuard ==
    [][ /\ gas_counter <= gas_limit => gas_counter + last'.charged <= gas_limit
        /\ (last'.op = "gas" /\ gas_counter <= gas_limit) =>
              IF gas_counter + last'.gas > gas_limit
              THEN last'.err = "GasLimit" /\ gas_counter' = gas_counter
              ELSE /\ last'.err = "None"
                   /\ gas_counter' = gas_counter + last'.gas
                   /\ gas_limit' = gas_limit ]_vars

\* C3: gas accounting never overflows: starting from gas_counter <= gas_limit
\* a host call's charges either fail with GasLimit or leave gas_counter at
\* the exact sum of the old value and the costs charged (here for the host
\* calls that end without a refund from the provider).
C3_NoOverflow ==
    [][ (gas_counter <= gas_limit /\ last'.ext_result \in {"None", "Failed"}) =>
            /\ last'.err # "Overflow"
            /\ gas_counter' = gas_counter + last'.charged ]_vars

\* C4: gas_counter never decreases across a host call.
C4_Monotonic == [][ gas_counter' >= gas_counter ]_vars

\* C5: a contract whose every basic block calls gas(amount >= 1) eventually
\* leaves the running state.
C5_Terminates == <>(status # "running")

\* C7: a sub-call that reaches the provider has charged exactly call_gas +
\* forwarded gas; afterwards gas_counter is the old value + call_gas +
\* forwarded gas - unused gas for Success and Reverted and without the
\* refund for Failed; it returns 0 only for Success, -1 for Reverted and
\* Failed, and writes the result buffer only for Success and Reverted.
C7_SubCallProtocol ==
    [][ (gas_counter <= gas_limit /\ last'.invoked = {"call"}) =>
            /\ last'.charged = schedule.call_gas + last'.gas
            /\ gas_counter' = gas_counter + schedule.call_gas + last'.gas
                                - last'.unused
            /\ last'.ext_result = "Failed" => last'.unused = 0
            /\ last'.ret = "0" => last'.ext_result = "Success"
            /\ last'.err = "None" =>
                  last'.ret = (IF last'.ext_result = "Success" THEN "0" ELSE "-1")
            /\ last'.wrote => last'.ext_result \in {"Success", "Reverted"} ]_vars

\* C8: a create that reaches the provider has charged create_gas +
\* create_data_gas * code_len and hands over gas_limit - gas_counter; Created
\* writes the address, sets gas_counter to gas_limit - gas left and returns
\* 0; Reverted recomputes the same way, returns -1 and writes nothing; Failed
\* returns -1 with gas_counter at its value after the charges.
C8_CreateProtocol ==
    [][ (gas_counter <= gas_limit /\ last'.invoked = {"create"}) =>
            /\ last'.gas = gas_limit - (gas_counter + last'.charged)
            /\ (last'.ext_result = "Created" /\ last'.err = "None") =>
                  /\ last'.wrote /\ last'.ret = "0"
                  /\ gas_counter' = gas_limit - last'.unused
            /\ last'.ext_result = "Reverted" =>
                  /\ ~last'.wrote /\ last'.ret = "-1"
                  /\ gas_counter' = gas_limit - last'.unused
            /\ last'.ext_result = "Failed" =>
                  /\ ~last'.wrote /\ last'.ret = "-1"
                  /\ gas_counter' = gas_counter + last'.charged ]_vars

\* C6: once a host call has returned an error nothing more happens in that
\* invocation: no later host call runs and gas_counter, result, sandbox
\* memory and provider state stay as they are; panic and suicide never
\* return normally.
C6_TrapTerminal ==
    [][ /\ last.err # "None" =>
              UNCHANGED <<gas_counter, result, memory, ext, last>>
        /\ last'.op \in {"panic", "suicide"} =>
              last'.err # "None" /\ status' # "running" ]_vars

C6_Witness ==
    /\ status = "trapped"
    /\ last.op = "suicide" /\ last.err = "Suicide"
    /\ ext.suicided

\* C9: a host call whose charge fails with GasLimit traps before any side
\* effect: no state-changing provider method (set_storage, call, create,
\* suicide) was invoked and no byte of sandbox memory was written by it.
C9_GasLimitBeforeEffects ==
    [][ last'.err = "GasLimit" =>
            /\ status' = "trapped"
            /\ last'.invoked = {}
            /\ ~last'.wrote
            /\ memory' = memory
            /\ ext' = ext ]_vars

C9_Witness ==
    /\ status = "trapped"
    /\ last.err = "GasLimit"
    /\ last.op \in {"value", "coinbase", "blockhash"}

\* C10: result is empty when the Runtime is built and only a ret that
\* succeeds changes it, to the region it names (the last ret wins); an
\* out-of-bounds ret traps with MemoryAccessViolation and leaves it.
C10_ResultOnlyByRet ==
    /\ result = <<>>
    /\ [][ /\ result' # result => last'.op = "ret" /\ last'.err = "None"
           /\ last'.op = "ret" =>
                IF InBounds(last'.ptr, last'.len)
                THEN /\ last'.err = "None"
                     /\ result' = MemGet(memory, last'.ptr, last'.len)
                ELSE /\ last'.err = "MemoryAccessViolation"
                     /\ status' = "trapped"
                     /\ result' = result ]_vars

C10_Witness ==
    /\ last.op = "ret" /\ last.err = "None"
    /\ result = <<255>>

\* C11: an in-bounds ret(ptr, len) leaves in result the bytes the sandbox
\* memory held at [ptr, ptr+len) when it was called; input_length returns the
\* length of the argument buffer; fetch_input(dst) directly followed by
\* ret(dst, input_length()) leaves result equal to the argument buffer; and
\* none of the three changes gas_counter.
C11_RetRoundTrip ==
    [][ /\ (last'.op = "ret" /\ InBounds(last'.ptr, last'.len)) =>
              /\ last'.err = "None"
              /\ result' = MemGet(memory, last'.ptr, last'.len)
        /\ last'.op = "input_length" => last'.val = Len(args)
        /\ ( /\ last.op = "fetch_input" /\ last.err = "None"
             /\ last'.op = "ret"
             /\ last'.ptr = last.ptr /\ last'.len = AsU32(Len(args)) ) =>
              /\ last'.err = "None"
              /\ result' = args
        /\ last'.op \in {"ret", "input_length", "fetch_input"} =>
              gas_counter' = gas_counter ]_vars

C11_Witness ==
    /\ last.op = "ret" /\ last.err = "None"
    /\ last.len = Len(args) /\ Len(args) > 0
    /\ result = args
    /\ MemGet(memory, last.ptr, last.len) = args

C13_ResolveMemory ==
    driver.mem_request # None =>
        LET r == driver.mem_request[1]
            accepted ==
                /\ r.name = "memory"
                /\ r.initial < MemoryCap
                /\ \/ r.maximum = None
                   \/ r.initial <= r.maximum[1] /\ r.maximum[1] <= MemoryCap IN
        IF accepted
        THEN driver.mem = Some([initial |-> r.initial, maximum |-> r.maximum])
        ELSE /\ driver.mem = None
             /\ driver.pc = "done"
             /\ driver.ret = None
             /\ driver.error \in {"Module requested too much memory",
                                  "Memory imported under unknown name"}

C13_Witness ==
    /\ driver.mem_request # None
    /\ driver.mem_request[1].initial = MemoryCap - 1
    /\ driver.mem_request[1].maximum = Some(MemoryCap)
    /\ driver.mem # None
    /\ driver.pc = "gas_check"

\* The name-to-index table of the host functions of namespace env.
HostTable ==
    [ storage_read |-> 10, storage_write |-> 11, ret |-> 20, gas |-> 30,
      fetch_input |-> 40, input_length |-> 50, panic |-> 100, debug |-> 110,
      ccall |-> 120, dcall |-> 121, scall |-> 122, value |-> 130,
      create |-> 140, suicide |-> 150, blockhash |-> 160, blocknumber |-> 161,
      coinbase |-> 162, difficulty |-> 163, gaslimit |-> 164,
      timestamp |-> 165, memcpy |-> 170, memcmp |-> 171 ]

\* C14: once a module whose first import is a function of env has been
\* through instantiation, the import is bound to the index the table lists
\* for its name if the name is one of the 22 of the table, and the
\* instantiation has ended with an error if it is not.
C14_ResolveFunc ==
    (driver.module # None /\ driver.pc \notin {"payload", "instantiate"}) =>
        LET imports == driver.module[1].imports IN
        (Len(imports) > 0 /\ imports[1].kind = "func") =>
            IF imports[1].name \in DOMAIN HostTable
            THEN <<imports[1].name, HostTable[imports[1].name]>> \in driver.funcs
            ELSE /\ driver.funcs = {}
                 /\ driver.pc = "done"
                 /\ driver.error = "Export not found"

\* C15: when exec has returned a result, it is Known(gas_left) if the
\* Runtime's return buffer is empty and NeedsReturn{gas_left, data: the
\* return buffer, apply_state: true} otherwise, with gas_left = gas_limit -
\* gas_counter of the Runtime at the end of the run.
C15_ExecResult ==
    driver.ret # None =>
        driver.ret[1] = IF result = <<>>
                        THEN Known(gas_limit - gas_counter)
                        ELSE NeedsReturn(gas_limit - gas_counter, result)

\* C16: for the memory of p pages the resolver accepted and every schedule
\* factor s = wasm.static_region below 2^16, the driver's assertion holds and
\* the product p * 65536 * s is computed without overflow (nothing aborts),
\* the driver charges exactly that product, and a charge exceeding the gas
\* budget makes exec fail with GasLimit.
C16_InitialMemoryCharge ==
    [][ (driver.pc = "charge" /\ driver.static_region < StaticRegionBound) =>
            LET amount == memory_size(driver.mem) * PageBytes
                            * driver.static_region IN
            /\ driver'.pc # "aborted"
            /\ IF gas_counter + amount > gas_limit
               THEN /\ driver'.pc = "done" /\ driver'.error = "GasLimit"
                    /\ gas_counter' = gas_counter
               ELSE /\ driver'.pc = "return"
                    /\ driver'.charged = amount
                    /\ gas_counter' = gas_counter + amount ]_vars

C18_AlwaysSuicide ==
    [][ last'.op = "suicide" =>
            /\ status' = "trapped" /\ last'.err = "Suicide"
            /\ last'.invoked = {"suicide"} /\ ext'.suicided
            /\ last'.charged = IF last'.ext_result = "true"
                               THEN schedule.suicide_gas
                               ELSE schedule.suicide_to_new_account_cost
            /\ gas_counter' = gas_counter + last'.charged ]_vars

\* C18 (amended): suicide never returns normally. It ends in the Suicide
\* trap exactly when the provider has marked the self-destruct, which it did
\* once and after the charge of suicide_gas (refund address exists) or
\* suicide_to_new_account_cost (it does not) had succeeded; otherwise it
\* ends in MemoryAccessViolation, SuicideAbort or GasLimit, or in the
\* panic of the overflowing charge, with the provider unmarked; the
\* provider's suicide is never invoked unless the charge succeeded.
C18_SuicideTraps ==
    [][ last'.op = "suicide" =>
            LET cost == IF last'.ext_result = "true"
                        THEN schedule.suicide_gas
                        ELSE schedule.suicide_to_new_account_cost
                paid == /\ last'.charged = cost
                        /\ gas_counter' = (gas_counter + cost) % U64Mod
                        /\ gas_counter' <= gas_limit IN
            /\ status' \in {"trapped", "aborted"}
            /\ last'.err \in {"Suicide", "MemoryAccessViolation",
                               "SuicideAbort", "GasLimit", "Overflow"}
            /\ (status' = "aborted") <=> (last'.err = "Overflow")
            /\ last'.ext_result \in {"true", "false"} =>
                   last'.charged = cost
            /\ "suicide" \in last'.invoked => paid
            /\ last'.err = "Suicide" =>
                   /\ last'.invoked = {"suicide"}
                   /\ ~ext.suicided /\ ext'.suicided
            /\ last'.err # "Suicide" =>
                   /\ ext' = ext
                   /\ last'.err \in {"GasLimit", "Overflow"} =>
                          last'.invoked = {} /\ gas_counter' = gas_counter ]_vars

C18_Witness ==
    /\ status = "trapped"
    /\ last.op = "suicide" /\ last.err = "Suicide"
    /\ last.ext_result = "false"
    /\ last.charged = schedule.suicide_to_new_account_cost
    /\ last.invoked = {"suicide"}
    /\ ext.suicided

\* C19: in a sub-call the provider is called with the current contract's
\* address as sender and the target address as receiver for ccall (Call) and
\* scall (StaticCall), with the current contract's sender as sender and the
\* current contract's address as receiver for dcall (DelegateCall); the code
\* address is the target address in all three and only ccall passes a value.
C19_SenderRecipient ==
    [][ (last'.op \in {"ccall", "dcall", "scall"} /\ "call" \in last'.invoked) =>
            LET target == MemGet(memory, last'.ptr, AddressLen)
                sent == last'.sent IN
            /\ sent.call_type = CASE last'.op = "ccall" -> "Call"
                                   [] last'.op = "dcall" -> "DelegateCall"
                                   [] OTHER -> "StaticCall"
            /\ sent.code_address = target
            /\ IF last'.op = "dcall"
               THEN /\ sent.sender_address = context.sender
                    /\ sent.receive_address = context.address
               ELSE /\ sent.sender_address = context.address
                    /\ sent.receive_address = target
            /\ sent.value =
                 IF last'.op = "ccall"
                 THEN Some(MemGet(memory, last'.ptr2, H256Len))
                 ELSE None ]_vars

C19_Witness ==
    /\ last.op = "dcall" /\ last.invoked = {"call"}
    /\ last.sent.sender_address = context.sender
    /\ last.sent.sender_address # context.address
    /\ last.sent.receive_address = context.address
    /\ last.sent.code_address # context.address
    /\ last.sent.value = None

C21_TrapKeepsCharge ==
    [][ (status = "running" /\ status' = "trapped") =>
            gas_counter' >= gas_counter + last'.charged ]_vars

\* C22: a ccall whose value exceeds the balance of the current contract
\* returns -1 without trapping, with gas_counter unchanged, nothing charged,
\* the provider's call not invoked and sandbox memory not written (and a
\* ccall returns that way for no other reason); dcall and scall make no
\* balance check.
C22_InsufficientBalance ==
    [][ /\ (last'.op = "ccall" /\ last'.balance # None) =>
              LET val == MemGet(memory, last'.ptr2, H256Len)
                  short == U256Less(last'.balance[1], val)
                  refused == /\ status' = "running"
                             /\ last'.err = "None" /\ last'.ret = "-1"
                             /\ last'.invoked = {} IN
              /\ short => /\ refused
                          /\ gas_counter' = gas_counter
                          /\ last'.charged = 0
                          /\ ~last'.wrote /\ memory' = memory
                          /\ ext' = ext
              /\ refused => short
        /\ last'.op \in {"dcall", "scall"} =>
              /\ last'.balance = None
              /\ last'.ret = "-1" => last'.invoked = {"call"} ]_vars

C22_Witness ==
    /\ status = "running"
    /\ last.op = "ccall" /\ last.ret = "-1" /\ last.err = "None"
    /\ last.invoked = {} /\ last.charged = 0
    /\ last.balance = Some(<<0>>)
    /\ MemGet(memory, last.ptr2, H256Len) = <<255>>
    /\ gas_counter > 0

\* C23: the charges of a sub-call and of create are applied in two steps:
\* when call_gas fits but call_gas + forwarded gas exceeds the remaining
\* budget, ccall/dcall/scall trap with GasLimit with gas_counter = entry
\* value + call_gas and the provider's call not invoked; when create_gas
\* fits but the data charge does not, create traps with GasLimit with
\* gas_counter = entry value + create_gas and the provider's create not
\* invoked.
C23_TwoStepCharge ==
    [][ /\ ( /\ last'.op \in {"ccall", "dcall", "scall"}
             /\ last'.charged >= schedule.call_gas
             /\ ~(last'.err = "MemoryAccessViolation" /\ last'.invoked = {})
             /\ gas_counter + schedule.call_gas <= gas_limit
             /\ gas_counter + schedule.call_gas + last'.gas > gas_limit ) =>
              /\ status' = "trapped" /\ last'.err = "GasLimit"
              /\ gas_counter' = gas_counter + schedule.call_gas
              /\ last'.invoked = {}
        /\ ( /\ last'.op = "create"
             /\ last'.charged >= schedule.create_gas
             /\ gas_counter + schedule.create_gas <= gas_limit
             /\ gas_counter + schedule.create_gas
                   + schedule.create_data_gas * last'.len > gas_limit ) =>
              /\ status' = "trapped" /\ last'.err = "GasLimit"
              /\ gas_counter' = gas_counter + schedule.create_gas
              /\ last'.invoked = {} ]_vars

\* ---- dispatch (runtime.rs, Externals) ------------------------------------
\* The functions the arms of invoke_index call, one arm per *_FUNC constant.
DispatchArms ==
    { "storage_write", "storage_read", "ret", "gas", "input_length",
      "fetch_input", "panic", "debug", "ccall", "dcall", "scall", "value",
      "create", "suicide", "blockhash", "blocknumber", "coinbase",
      "difficulty", "gaslimit", "timestamp" }

\* The value of the constant an arm matches on: env::ids where it defines
\* the constant, the table of host functions for the others.
ArmIndex(name) ==
    IF name \in DOMAIN ids THEN ids[name] ELSE HostTable[name]

\* Externals::invoke_index(index, args): the function the matching arm
\* calls, or the panic of the arm `_`.
invoke_index(index) ==
    IF \E name \in DispatchArms : ArmIndex(name) = index
    THEN CHOOSE name \in DispatchArms : ArmIndex(name) = index
    ELSE "env module doesn't provide function at index"

\* C24: every index resolve_func has bound to an import of an instantiated
\* module is dispatched by invoke_index to the function of that name, not to
\* the panic of the unmapped index; and every index of the table of host
\* functions has a dispatch arm.
C24_DispatchAgrees ==
    /\ \A f \in driver.funcs : invoke_index(f[2]) = f[1]
    /\ driver.funcs # {} =>
          \A name \in DOMAIN HostTable :
              invoke_index(HostTable[name]) \in DispatchArms

====
